---- MODULE Spec2Model ----
(***************************************************************************)
(* Model of the arok-mini agent runtime: startServer (src/index.ts), the   *)
(* mentions poller TwitterInteractions and the QUERY action                *)
(* (src/plugins/plugin-twitter/interactions.ts).                           *)
(*                                                                         *)
(* AgentService, CacheService and MessageBus are not part of the sources   *)
(* at hand; they are modelled from the design document (sections 4.1, 4.2  *)
(* and 4.4).                                                               *)
(*                                                                         *)
(* Everything runs on one JavaScript thread: an action of this module is   *)
(* the code that runs between two suspension points (await).               *)
(***************************************************************************)
EXTENDS Integers, Sequences, FiniteSets, TLC

\* ------------------------------------------------------------------ bounds
\* candidates one searchTweets generator yields at most (the source asks for 20)
MaxPage == 2
\* fetchMentions invocations in one behaviour
MaxCycles == 2
\* fetchMentions invocations suspended at the same time
MaxInFlight == 2
\* ceiling of the dedup set (the source keeps the last 1000)
MaxProcessed == 1
\* QUERY executions in one behaviour
MaxQueries == 1
\* handlers that can be subscribed to the MessageBus
MaxHandlers == 2
\* restarts of the process in one behaviour
MaxRestarts == 1

\* ------------------------------------------------------------- identifiers
\* A tweet id is a string of decimal digits, modelled as its digit sequence.
\* The empty string stands for every falsy id (undefined, null, "").
NoId == <<>>

Ids == { <<9>>, <<1, 0>> }

Candidates == Ids \cup {NoId}

\* JavaScript's a > b on two strings: code-unit lexicographic order
RECURSIVE StrGT(_, _)
StrGT(a, b) ==
  IF a = <<>> THEN FALSE
  ELSE IF b = <<>> THEN TRUE
  ELSE IF Head(a) # Head(b) THEN Head(a) > Head(b)
  ELSE StrGT(Tail(a), Tail(b))

Range(s) == { s[i] : i \in 1..Len(s) }

\* Set.prototype.add on an insertion-ordered Set
SetAdd(s, x) == IF x \in Range(s) THEN s ELSE Append(s, x)

\* processedArray.splice(0, processedArray.length - 1000)
Splice(arr) ==
  IF Len(arr) > MaxProcessed
  THEN SubSeq(arr, Len(arr) - MaxProcessed + 1, Len(arr))
  ELSE arr

\* ----------------------------------------------------------------- plugins
\* registration order of startServer
Plugins == << "api", "twitter_interactions" >>

TW == "twitter_interactions"

API == "api"

PluginNames == Range(Plugins)

\* ------------------------------------------------------------------- state
VARIABLES
  server,           \* startServer: [pc, idx] of the process number boot
  registry,         \* AgentService: plugin names in registration order
  excluded,         \* AgentService: plugins whose initialize failed
  initialize,       \* per plugin: state of the initialize(context) promise
  started,          \* per plugin: state of the start() promise
  init,             \* TwitterInteractions.initializeCache in progress
  processedTweets,  \* TwitterInteractions.processedTweets (insertion order)
  pollInterval,     \* TwitterInteractions.pollInterval (0 = undefined)
  timers,           \* handles of the intervals the runtime keeps firing
  cycles,           \* fetchMentions invocations
  cache,            \* CacheService contents
  bus,              \* ids of the messages the MessageBus has accepted
  lastCall,         \* how the latest fetchMentions or execute call settled
  stopCalled,       \* stopListening was called after start() was invoked
  query,            \* QueryAction.execute invocation
  messageBus        \* MessageBus: [handlers, deliveries, reported]

vars == << server, registry, excluded, initialize, started, init,
           processedTweets, pollInterval, timers, cycles, cache, bus,
           lastCall, stopCalled, query, messageBus >>

CycleIds == 1..MaxCycles

IdleCycle ==
  [ pc |-> "idle", origin |-> "none",
    newLastMentionId |-> NoId, yielded |-> 0, firstOccurrences |-> <<>>,
    mention |-> NoId, count |-> 0,
    processedArray |-> <<>>, lastPollTime |-> 0, wrote |-> FALSE ]

\* a settled invocation
DoneCycle == [ IdleCycle EXCEPT !.pc = "done" ]

IdleInit ==
  [ pc |-> "none", lastMentionId |-> NoId, processedTweets |-> <<>>,
    lastPollTime |-> 0 ]

NoCall == [ settled |-> "none", value |-> 0, data |-> "" ]

IdleQuery == [ pc |-> "idle", n |-> 0, body |-> "none" ]

\* the entry of a key nothing is stored at.  Besides the poller's three
\* fields the value can carry the fields a and b of other clients (0: the
\* value has no such field)
AbsentState ==
  [ present |-> FALSE, lastMentionId |-> NoId, lastPollTime |-> 0,
    processedTweets |-> <<>>, a |-> 0, b |-> 0, tag |-> "none" ]

EmptyCache ==
  [ lastMentionId   |-> NoId,
    processedTweets |-> [ present |-> FALSE, value |-> <<>> ],
    twitter_state   |-> AbsentState ]

\* nobody has subscribed, nothing was delivered, no handler error reported
EmptyBus == [ handlers |-> <<>>, deliveries |-> <<>>, reported |-> {} ]

Init ==
  /\ server = [ pc |-> "load", idx |-> 0, boot |-> 0 ]
  /\ registry = <<>>
  /\ excluded = {}
  /\ initialize = [ p \in PluginNames |-> "none" ]
  /\ started = [ p \in PluginNames |-> "none" ]
  /\ init = IdleInit
  /\ processedTweets = <<>>
  /\ pollInterval = 0
  /\ timers = {}
  /\ cycles = [ c \in CycleIds |-> IdleCycle ]
  /\ cache = EmptyCache
  /\ bus = <<>>
  /\ lastCall = NoCall
  /\ stopCalled = FALSE
  /\ query = IdleQuery
  /\ messageBus = EmptyBus


\* ------------------------------------------------- CacheService (sec. 4.2)
\* cache.set(key, value): replaces the value stored at key
CacheSet(c, key, value) == [ c EXCEPT ![key] = value ]

\* the entry set(key, value, tag) stores: the value as given, with no other
\* field
Stored(value, tag) ==
  [ f \in DOMAIN AbsentState |->
      IF f = "present" THEN TRUE
      ELSE IF f = "tag" THEN tag
      ELSE IF f \in DOMAIN value THEN value[f]
      ELSE AbsentState[f] ]

\* variant of CacheUpdateState for an update that replaces the stored value
CacheUpdateReplaces(c, partial) ==
  [ c EXCEPT !["twitter_state"] = Stored(partial, @.tag) ]

\* cache.update("twitter_state", partial): shallow merge into the stored
\* value; on an absent key it stores the partial
CacheUpdateState(c, partial) ==
  [ c EXCEPT !["twitter_state"] =
      [ f \in DOMAIN @ |->
          IF f = "present" THEN TRUE
          ELSE IF f \in DOMAIN partial THEN partial[f]
          ELSE @[f] ] ]

\* what the other clients of the cache merge into twitter_state
OtherPartials == { [ a |-> 1 ], [ b |-> 2 ] }

\* another plugin calls cache.update("twitter_state", partial)
OtherUpdate(partial) ==
  /\ cache' = CacheUpdateState(cache, partial)
  /\ UNCHANGED << server, registry, excluded, initialize, started, init,
                  processedTweets, pollInterval, timers, cycles, bus,
                  lastCall, stopCalled, query, messageBus >>

\* ---------------------------------------------------- MessageBus (sec. 4.1)
Handlers == 1..MaxHandlers

\* subscribe(handler): the handler is put after the ones subscribed already
Subscribe(h) ==
  /\ h \notin Range(messageBus.handlers)
  /\ messageBus' = [ messageBus EXCEPT !.handlers = Append(@, h) ]
  /\ UNCHANGED << server, registry, excluded, initialize, started, init,
                  processedTweets, pollInterval, timers, cycles, cache, bus,
                  lastCall, stopCalled, query >>

\* unsubscribe(handle): the handler is taken out, the others keep their order
Unsubscribe(h) ==
  /\ h \in Range(messageBus.handlers)
  /\ messageBus' = [ messageBus EXCEPT !.handlers =
                       SelectSeq(@, LAMBDA g : g # h) ]
  /\ UNCHANGED << server, registry, excluded, initialize, started, init,
                  processedTweets, pollInterval, timers, cycles, cache, bus,
                  lastCall, stopCalled, query >>

\* the handlers up to and including the first one that throws
RECURSIVE UntilThrow(_, _)
UntilThrow(hs, throwing) ==
  IF hs = <<>> THEN <<>>
  ELSE IF Head(hs) \in throwing THEN << Head(hs) >>
  ELSE << Head(hs) >> \o UntilThrow(Tail(hs), throwing)

\* variant of Invoked for a fan-out that the first throwing handler ends
InvokedUntilThrow(hs, throwing) == UntilThrow(hs, throwing)

\* the handlers publish invokes for one message, in order, when the handlers
\* of the set throwing raise an error: all the subscribed ones
Invoked(hs, throwing) == hs

\* publish(message): fan-out to the subscribed handlers; the errors of the
\* handlers are reported
BusPublish(mb, m, throwing) ==
  LET inv == Invoked(mb.handlers, throwing) IN
  [ mb EXCEPT !.deliveries = @ \o [ i \in 1..Len(inv) |-> << inv[i], m >> ],
              !.reported = @ \cup { << h, m >> : h \in Range(inv) \cap throwing } ]

\* ------------------------------------------------ fetchMentions, one cycle
FreeCycle == CHOOSE c \in CycleIds :
               /\ cycles[c].pc = "idle"
               /\ \A d \in CycleIds : d < c => cycles[d].pc # "idle"

InFlight(c) == cycles[c].pc \notin { "idle", "done" }

\* Date.now(): the clock is read in units of fetchMentions calls entered
Now == Cardinality({ c \in CycleIds : cycles[c].pc # "idle" })

HasFreeCycle ==
  /\ \E c \in CycleIds : cycles[c].pc = "idle"
  /\ Cardinality({ c \in CycleIds : InFlight(c) }) < MaxInFlight

\* fetchMentions is entered: getScraper(), then cache.get("lastMentionId")
\* is called and awaited
BeginFetch(origin) ==
  cycles' = [ cycles EXCEPT ![FreeCycle] =
                [ IdleCycle EXCEPT !.pc = "getCursor", !.origin = origin ] ]

\* variant of IsSkipped without the processedTweets.has test
IsSkippedNoDedup(m, processed) == m = NoId

\* lines 127-133: the candidate has no id, or was processed before
IsSkipped(m, processed) == m = NoId \/ m \in Range(processed)

\* lines 136-138: the tracked maximum after candidate m
NewLastMentionId(m, cur) == IF cur = NoId \/ StrGT(m, cur) THEN m ELSE cur

\* variant of CatchFetchError whose catch block rethrows
CatchFetchErrorRethrow == [ settled |-> "rejected", value |-> 0 ]

\* lines 155-158: what fetchMentions settles to when the try block threw
CatchFetchError == [ settled |-> "resolved", value |-> 0 ]

\* lines 64-67: FETCH_MENTIONS.execute settles the way the fetchMentions it
\* awaits settled, with the count as its result
FetchMentionsExecute(out) == out

\* a timer handle setInterval has not handed out yet
NewTimer == CHOOSE h \in 1..(Cardinality(timers) + 2) :
              /\ h \notin timers
              /\ h # pollInterval
              /\ \A g \in 1..(h - 1) : g \in timers \/ g = pollInterval

\* lines 73-82: startListening resumes when its initial fetchMentions has
\* settled: resolved, it creates the interval, stores the handle in
\* pollInterval and start() resolves; rejected, start() rejects
StartListeningResume(out) ==
  IF out.settled = "resolved"
  THEN /\ timers' = timers \cup {NewTimer}
       /\ pollInterval' = NewTimer
       /\ started' = [ started EXCEPT ![TW] = "done" ]
  ELSE /\ started' = [ started EXCEPT ![TW] = "failed" ]
       /\ UNCHANGED << timers, pollInterval >>

\* lines 73-82: a startListening that was called directly, not through
\* start(), resumes: it creates its interval and stores the handle
StartListeningDirect(out) ==
  IF out.settled = "resolved"
  THEN /\ timers' = timers \cup {NewTimer}
       /\ pollInterval' = NewTimer
       /\ UNCHANGED started
  ELSE UNCHANGED << timers, pollInterval, started >>

\* fetchMentions settles and its caller resumes: startListening, the
\* interval callback (lines 76-80) or FETCH_MENTIONS.execute
Settle(c, out) ==
  LET origin == cycles[c].origin IN
  /\ cycles' = [ cycles EXCEPT ![c] = DoneCycle ]
  /\ lastCall' =
       LET ret == IF origin = "action" THEN FetchMentionsExecute(out) ELSE out
       IN [ settled |-> ret.settled, value |-> ret.value, data |-> "" ]
  /\ IF origin = "start" THEN StartListeningResume(out)
     ELSE IF origin = "listen" THEN StartListeningDirect(out)
     ELSE UNCHANGED << timers, pollInterval, started >>

\* lines 116-124: the cursor read resolves, searchTweets hands back its
\* generator, count and newLastMentionId are initialised
GetCursor(c) ==
  /\ cycles[c].pc = "getCursor"
  /\ cycles' = [ cycles EXCEPT ![c].pc = "iter",
                               ![c].count = 0,
                               ![c].newLastMentionId = cache.lastMentionId ]
  /\ UNCHANGED << server, registry, excluded, initialize, started, init,
                  processedTweets, pollInterval, timers, cache, bus,
                  lastCall, stopCalled, query, messageBus >>

\* line 116: the cursor read rejects
GetCursorFail(c) ==
  /\ cycles[c].pc = "getCursor"
  /\ Settle(c, CatchFetchError)
  /\ UNCHANGED << server, registry, excluded, initialize, init,
                  processedTweets, cache, bus, stopCalled, query,
                  messageBus >>

\* the candidates received so far that carry an id, each at its first
\* occurrence, in the order received (history, not read by the program)
FirstOccurrences(seen, m) ==
  IF m = NoId \/ m \in Range(seen) THEN seen ELSE Append(seen, m)

\* lines 126-142: the generator yields candidate m; it is skipped, or counted
\* and handed to messageBus.publish
Examine(c, m) ==
  /\ cycles[c].pc = "iter"
  /\ cycles[c].yielded < MaxPage
  /\ cycles' =
       IF IsSkipped(m, processedTweets)
       THEN [ cycles EXCEPT ![c].yielded = @ + 1,
                            ![c].firstOccurrences = FirstOccurrences(@, m) ]
       ELSE [ cycles EXCEPT ![c].yielded = @ + 1,
                            ![c].firstOccurrences = FirstOccurrences(@, m),
                            ![c].newLastMentionId = NewLastMentionId(m, @),
                            ![c].count = @ + 1,
                            ![c].mention = m,
                            ![c].pc = "publish" ]
  /\ UNCHANGED << server, registry, excluded, initialize, started, init,
                  processedTweets, pollInterval, timers, cache, bus,
                  lastCall, stopCalled, query, messageBus >>

\* line 126: the generator throws (the external fetch failed)
FetchFail(c) ==
  /\ cycles[c].pc = "iter"
  /\ Settle(c, CatchFetchError)
  /\ UNCHANGED << server, registry, excluded, initialize, init,
                  processedTweets, cache, bus, stopCalled, query,
                  messageBus >>

\* lines 142-145: the MessageBus delivers the message, publish resolves, the
\* id is marked as processed
PublishDone(c) ==
  /\ cycles[c].pc = "publish"
  /\ bus' = Append(bus, cycles[c].mention)
  /\ \E throwing \in SUBSET Range(messageBus.handlers) :
       messageBus' = BusPublish(messageBus, cycles[c].mention, throwing)
  /\ processedTweets' = SetAdd(processedTweets, cycles[c].mention)
  /\ cycles' = [ cycles EXCEPT ![c].pc = "iter", ![c].mention = NoId ]
  /\ UNCHANGED << server, registry, excluded, initialize, started, init,
                  pollInterval, timers, cache,  lastCall, stopCalled,
                  query >>

\* line 142: publish rejects
PublishFail(c) ==
  /\ cycles[c].pc = "publish"
  /\ Settle(c, CatchFetchError)
  /\ UNCHANGED << server, registry, excluded, initialize, init,
                  processedTweets, cache, bus, stopCalled, query,
                  messageBus >>

\* variant of LoopExit that calls updateCache whatever the count is
LoopExitAlways(c) ==
  /\ cycles[c].pc = "iter"
  /\ cycles' = [ cycles EXCEPT ![c].pc = "setLast",
                               ![c].yielded = 0,
                               ![c].processedArray = Splice(processedTweets) ]
  /\ processedTweets' = Splice(processedTweets)
  /\ lastCall' = lastCall
  /\ UNCHANGED << started, pollInterval, timers >>
  /\ UNCHANGED << server, registry, excluded, initialize, init, cache, bus,
                  stopCalled, query, messageBus >>

\* lines 148-154 and 161-171: the generator is exhausted and released with
\* its yield count.  Nothing new:
\* return 0.  Otherwise updateCache trims the dedup set and calls
\* cache.set("lastMentionId")
LoopExit(c) ==
  /\ cycles[c].pc = "iter"
  /\ IF cycles[c].count > 0
     THEN /\ cycles' = [ cycles EXCEPT ![c].pc = "setLast",
                                      ![c].yielded = 0,
                                      ![c].processedArray =
                                         Splice(processedTweets) ]
          /\ processedTweets' = Splice(processedTweets)
          /\ UNCHANGED << lastCall, started, pollInterval, timers >>
     ELSE /\ Settle(c, [ settled |-> "resolved", value |-> 0 ])
          /\ UNCHANGED processedTweets
  /\ UNCHANGED << server, registry, excluded, initialize, init, cache, bus,
                  stopCalled, query, messageBus >>

\* line 171: cache.set("lastMentionId", lastMentionId) takes effect
SetLast(c) ==
  /\ cycles[c].pc = "setLast"
  /\ cache' = CacheSet(cache, "lastMentionId", cycles[c].newLastMentionId)
  /\ cycles' = [ cycles EXCEPT ![c].pc = "setProcessed", ![c].wrote = TRUE ]
  /\ UNCHANGED << server, registry, excluded, initialize, started, init,
                  processedTweets, pollInterval, timers, bus,  lastCall,
                  stopCalled, query, messageBus >>

\* lines 172-173: cache.set("processedTweets", processedArray) takes effect
\* and cache.update("twitter_state") is called with the time of the call
SetProcessed(c) ==
  /\ cycles[c].pc = "setProcessed"
  /\ cache' = CacheSet(cache, "processedTweets",
                       [ present |-> TRUE, value |-> cycles[c].processedArray ])
  /\ cycles' = [ cycles EXCEPT ![c].pc = "updateState", ![c].wrote = TRUE,
                               ![c].lastPollTime = Now ]
  /\ UNCHANGED << server, registry, excluded, initialize, started, init,
                  processedTweets, pollInterval, timers, bus,  lastCall,
                  stopCalled, query, messageBus >>

\* lines 173-177 and 151-154: cache.update("twitter_state") takes effect,
\* updateCache returns and fetchMentions returns count
UpdateState(c) ==
  /\ cycles[c].pc = "updateState"
  /\ cache' = CacheUpdateState(cache,
                [ lastMentionId |-> cycles[c].newLastMentionId,
                  lastPollTime |-> cycles[c].lastPollTime,
                  processedTweets |-> cycles[c].processedArray ])
  /\ Settle(c, [ settled |-> "resolved", value |-> cycles[c].count ])
  /\ UNCHANGED << server, registry, excluded, initialize, init,
                  processedTweets, bus, stopCalled, query, messageBus >>

\* lines 178-180: one of the three cache writes rejects; updateCache logs it
\* and fetchMentions returns count
CacheWriteFail(c) ==
  /\ cycles[c].pc \in { "setLast", "setProcessed", "updateState" }
  /\ Settle(c, [ settled |-> "resolved", value |-> cycles[c].count ])
  /\ UNCHANGED << server, registry, excluded, initialize, init,
                  processedTweets, cache, bus, stopCalled, query,
                  messageBus >>


\* ------------------------------------------- TwitterInteractions lifecycle
\* lines 50-54 and 92: initialize stores the context and initializeCache
\* calls cache.get("lastMentionId")
BeginInitialize == init' = [ IdleInit EXCEPT !.pc = "getLast" ]

\* lines 92-93: the cursor read resolves, cache.get("processedTweets") is
\* called
InitGetLast ==
  /\ init.pc = "getLast"
  /\ init' = [ init EXCEPT !.pc = "getProcessed",
                           !.lastMentionId = cache.lastMentionId ]
  /\ UNCHANGED << server, registry, excluded, initialize, started,
                  processedTweets, pollInterval, timers, cycles, cache, bus,
                   lastCall, stopCalled, query, messageBus >>

\* new Set(array): duplicates dropped, first insertion kept
RECURSIVE ToSet(_)
ToSet(arr) == IF arr = <<>> THEN <<>>
              ELSE SetAdd(ToSet(SubSeq(arr, 1, Len(arr) - 1)), arr[Len(arr)])

\* variant of InitGetProcessed that does not take up the stored snapshot
InitGetProcessedNoRestore ==
  /\ init.pc = "getProcessed"
  /\ processedTweets' = processedTweets
  /\ init' = [ init EXCEPT !.pc = "setState",
                           !.processedTweets = processedTweets,
                           !.lastPollTime = Now ]
  /\ UNCHANGED << server, registry, excluded, initialize, started,
                  pollInterval, timers, cycles, cache, bus,  lastCall,
                  stopCalled, query, messageBus >>

\* lines 93-110: the snapshot read resolves; a non-empty snapshot replaces
\* the dedup set; cache.set("twitter_state") is called
InitGetProcessed ==
  /\ init.pc = "getProcessed"
  /\ LET stored == IF cache.processedTweets.present
                   THEN cache.processedTweets.value ELSE <<>>
         restored == IF Len(stored) > 0 THEN ToSet(stored)
                     ELSE processedTweets
     IN /\ processedTweets' = restored
        /\ init' = [ init EXCEPT !.pc = "setState",
                                 !.processedTweets = restored,
                                 !.lastPollTime = Now ]
  /\ UNCHANGED << server, registry, excluded, initialize, started,
                  pollInterval, timers, cycles, cache, bus,  lastCall,
                  stopCalled, query, messageBus >>

\* lines 99-110 and 55: the twitter_state write takes effect and initialize
\* resolves
InitSetState ==
  /\ init.pc = "setState"
  /\ cache' = CacheSet(cache, "twitter_state",
                Stored([ lastMentionId |-> init.lastMentionId,
                         lastPollTime |-> init.lastPollTime,
                         processedTweets |-> init.processedTweets ],
                       "twitter_state"))
  /\ init' = [ init EXCEPT !.pc = "done" ]
  /\ initialize' = [ initialize EXCEPT ![TW] = "done" ]
  /\ UNCHANGED << server, registry, excluded, started, processedTweets,
                  pollInterval, timers, cycles, bus,  lastCall,
                  stopCalled, query, messageBus >>

\* lines 92-110: a cache call of initializeCache rejects, so initialize
\* rejects; the AgentService excludes the plugin from start (sec. 4.3)
InitFail ==
  /\ init.pc \in { "getLast", "getProcessed", "setState" }
  /\ init' = [ IdleInit EXCEPT !.pc = "failed" ]
  /\ initialize' = [ initialize EXCEPT ![TW] = "failed" ]
  /\ excluded' = excluded \cup {TW}
  /\ UNCHANGED << server, registry, started, processedTweets, pollInterval,
                  timers, cycles, cache, bus,  lastCall, stopCalled,
                  query, messageBus >>

\* lines 75-81: an interval fires and its callback enters fetchMentions
TimerTick(h) ==
  /\ h \in timers
  /\ HasFreeCycle
  /\ BeginFetch("timer")
  /\ UNCHANGED << server, registry, excluded, initialize, started, init,
                  processedTweets, pollInterval, timers, cache, bus, lastCall,
                  stopCalled, query, messageBus >>

\* lines 84-89: what stopListening leaves in pollInterval and in the
\* runtime's timers
StopResult(pi, tm) ==
  IF pi # 0 THEN [ pollInterval |-> 0, timers |-> tm \ {pi} ]
  ELSE [ pollInterval |-> pi, timers |-> tm ]

\* variant of StopListening that also forgets the processed tweets
StopListeningAndForget ==
  /\ pollInterval' = StopResult(pollInterval, timers).pollInterval
  /\ timers' = StopResult(pollInterval, timers).timers
  /\ stopCalled' = (stopCalled \/ started[TW] # "none")
  /\ processedTweets' = <<>>
  /\ UNCHANGED << server, registry, excluded, initialize, started, init,
                  cycles, cache, bus, lastCall, query, messageBus >>

\* lines 84-89: stopListening, callable by anyone at any time
StopListening ==
  /\ pollInterval' = StopResult(pollInterval, timers).pollInterval
  /\ timers' = StopResult(pollInterval, timers).timers
  /\ stopCalled' = (stopCalled \/ started[TW] # "none")
  /\ UNCHANGED << server, registry, excluded, initialize, started, init,
                  processedTweets, cycles, cache, bus,  lastCall, query,
                  messageBus >>

\* lines 71-73: startListening, a public method, is called on the plugin
\* the agent has started and enters fetchMentions
StartListening ==
  /\ initialize[TW] = "done"
  /\ started[TW] # "none"
  /\ HasFreeCycle
  /\ BeginFetch("listen")
  /\ UNCHANGED << server, registry, excluded, initialize, started, init,
                  processedTweets, pollInterval, timers, cache, bus,
                  lastCall, stopCalled, query, messageBus >>

\* lines 62-69: the dispatcher runs FETCH_MENTIONS.execute, which enters
\* fetchMentions
ExecuteFetchMentions ==
  /\ initialize[TW] = "done"
  /\ started[TW] # "none"
  /\ HasFreeCycle
  /\ BeginFetch("action")
  /\ UNCHANGED << server, registry, excluded, initialize, started, init,
                  processedTweets, pollInterval, timers, cache, bus,
                  lastCall, stopCalled, query, messageBus >>


\* ------------------------------------------ startServer and AgentService
\* index.ts lines 36-61: the character is loaded and the agent is built
ServerLoad ==
  /\ server.pc = "load"
  /\ server' = [ server EXCEPT !.pc = "register" ]
  /\ UNCHANGED << registry, excluded, initialize, started, init,
                  processedTweets, pollInterval, timers, cycles, cache, bus,
                   lastCall, stopCalled, query, messageBus >>

\* index.ts lines 87-90: loading throws, the catch block exits the process
ServerLoadFail ==
  /\ server.pc = "load"
  /\ server' = [ server EXCEPT !.pc = "exited" ]
  /\ UNCHANGED << registry, excluded, initialize, started, init,
                  processedTweets, pollInterval, timers, cycles, cache, bus,
                   lastCall, stopCalled, query, messageBus >>

\* index.ts lines 63-68: agent.registerPlugin(plugin) is called; the
\* AgentService stores the plugin and calls its initialize(context)
ServerRegister ==
  /\ server.pc = "register"
  /\ server.idx < Len(Plugins)
  /\ LET p == Plugins[server.idx + 1] IN
       /\ registry' = Append(registry, p)
       /\ initialize' = [ initialize EXCEPT ![p] = "pending" ]
       /\ IF p = TW THEN BeginInitialize ELSE UNCHANGED init
  /\ server' = [ server EXCEPT !.pc = "awaitRegister" ]
  /\ UNCHANGED << excluded, started, processedTweets, pollInterval, timers,
                  cycles, cache, bus,  lastCall, stopCalled, query,
                  messageBus >>

\* the API plugin's initialize resolves
ApiInitialize ==
  /\ initialize[API] = "pending"
  /\ initialize' = [ initialize EXCEPT ![API] = "done" ]
  /\ UNCHANGED << server, registry, excluded, started, init, processedTweets,
                  pollInterval, timers, cycles, cache, bus,  lastCall,
                  stopCalled, query, messageBus >>

\* the API plugin's initialize rejects; the AgentService excludes it
ApiInitializeFail ==
  /\ initialize[API] = "pending"
  /\ initialize' = [ initialize EXCEPT ![API] = "failed" ]
  /\ excluded' = excluded \cup {API}
  /\ UNCHANGED << server, registry, started, init, processedTweets,
                  pollInterval, timers, cycles, cache, bus,  lastCall,
                  stopCalled, query, messageBus >>

\* variant of RegisterSettled for a registerPlugin call that is not awaited
RegisterNotAwaited(p) == TRUE

\* index.ts lines 67-68: the await on agent.registerPlugin(p) is over
RegisterSettled(p) == initialize[p] \in { "done", "failed" }

\* index.ts lines 67-86: startServer resumes after the await and goes on to
\* the next registration, or to the health route, listen and agent.start()
ServerRegistered ==
  /\ server.pc = "awaitRegister"
  /\ RegisterSettled(Plugins[server.idx + 1])
  /\ server' = [ server EXCEPT !.pc = IF server.idx + 1 = Len(Plugins)
                                      THEN "start" ELSE "register",
                               !.idx = server.idx + 1 ]
  /\ UNCHANGED << registry, excluded, initialize, started, init,
                  processedTweets, pollInterval, timers, cycles, cache, bus,
                   lastCall, stopCalled, query, messageBus >>

\* index.ts line 86: agent.start() is called
ServerStart ==
  /\ server.pc = "start"
  /\ server' = [ server EXCEPT !.pc = "starting", !.idx = 0 ]
  /\ UNCHANGED << registry, excluded, initialize, started, init,
                  processedTweets, pollInterval, timers, cycles, cache, bus,
                   lastCall, stopCalled, query, messageBus >>

\* variant of StartSettled for a start loop that a failed start() aborts
StartSettledOrAbort ==
  IF server.idx = 0 THEN TRUE
  ELSE IF registry[server.idx] \in excluded THEN TRUE
  ELSE started[registry[server.idx]] = "done"

\* the start() the AgentService awaits at the moment has settled
StartSettled ==
  IF server.idx = 0 THEN TRUE
  ELSE IF registry[server.idx] \in excluded THEN TRUE
  ELSE started[registry[server.idx]] \in { "done", "failed" }

\* variant of AgentStartPlugin that also starts a plugin whose initialize
\* failed
AgentStartPluginAll ==
  /\ server.pc = "starting"
  /\ server.idx < Len(registry)
  /\ StartSettled
  /\ LET p == registry[server.idx + 1] IN
       /\ started' = [ started EXCEPT ![p] = "pending" ]
       /\ IF p = TW THEN BeginFetch("start") ELSE UNCHANGED cycles
  /\ server' = [ server EXCEPT !.idx = @ + 1 ]
  /\ UNCHANGED << registry, excluded, initialize, init, processedTweets,
                  pollInterval, timers, cache, bus,  lastCall,
                  stopCalled, query, messageBus >>

\* AgentService.start (sec. 4.4): the next plugin in registration order is
\* started, unless its initialize failed.  TwitterInteractions.start
\* (lines 58-60, 71-73) enters startListening, which enters fetchMentions
AgentStartPlugin ==
  /\ server.pc = "starting"
  /\ server.idx < Len(registry)
  /\ StartSettled
  /\ LET p == registry[server.idx + 1] IN
       IF p \in excluded
       THEN UNCHANGED << started, cycles >>
       ELSE /\ started' = [ started EXCEPT ![p] = "pending" ]
            /\ IF p = TW THEN BeginFetch("start") ELSE UNCHANGED cycles
  /\ server' = [ server EXCEPT !.idx = @ + 1 ]
  /\ UNCHANGED << registry, excluded, initialize, init, processedTweets,
                  pollInterval, timers, cache, bus,  lastCall,
                  stopCalled, query, messageBus >>

\* the API plugin's start resolves
ApiStart ==
  /\ started[API] = "pending"
  /\ started' = [ started EXCEPT ![API] = "done" ]
  /\ UNCHANGED << server, registry, excluded, initialize, init,
                  processedTweets, pollInterval, timers, cycles, cache, bus,
                   lastCall, stopCalled, query, messageBus >>

\* the API plugin's start rejects; the AgentService logs it and goes on
ApiStartFail ==
  /\ started[API] = "pending"
  /\ started' = [ started EXCEPT ![API] = "failed" ]
  /\ UNCHANGED << server, registry, excluded, initialize, init,
                  processedTweets, pollInterval, timers, cycles, cache, bus,
                   lastCall, stopCalled, query, messageBus >>

\* the process ends and index.ts is run again: a new agent, a new MessageBus
\* and a new TwitterInteractions (lines 19-21: empty set, no interval) over
\* the cache the old process wrote; the old timers and suspended calls are
\* gone with the old process
Restart ==
  /\ server.boot < MaxRestarts
  /\ server' = [ pc |-> "load", idx |-> 0, boot |-> server.boot + 1 ]
  /\ registry' = <<>>
  /\ excluded' = {}
  /\ initialize' = [ p \in PluginNames |-> "none" ]
  /\ started' = [ p \in PluginNames |-> "none" ]
  /\ init' = IdleInit
  /\ processedTweets' = <<>>
  /\ pollInterval' = 0
  /\ timers' = {}
  /\ cycles' = [ c \in CycleIds |-> IdleCycle ]
  /\ bus' = <<>>
  /\ lastCall' = NoCall
  /\ stopCalled' = FALSE
  /\ query' = IdleQuery
  /\ messageBus' = EmptyBus
  /\ UNCHANGED cache

\* ------------------------------------------------------------ QueryAction
\* what the QUERY endpoint can send back as the response text
Bodies == { "json", "brokenJson", "text", "blank" }

\* lines 280-291: the string fetchData returns for a response text
FetchDataResult(body) ==
  CASE body = "json" -> "JSON.stringify(JSON.parse(result))"
    [] body = "brokenJson" -> "result.trim()"
    [] body = "text" -> "result.trim()"
    [] body = "blank" -> "No data returned from query"

\* lines 230-233 and 292-295: both catch blocks rethrow
QueryCatch == "rejected"

QuerySettle(settled, data) ==
  /\ query' = [ pc |-> "idle", n |-> query.n + 1, body |-> "none" ]
  /\ lastCall' = [ settled |-> settled, value |-> 0, data |-> data ]

\* lines 215-223 and 236-261: execute builds the query and fetchData posts it
ExecuteQuery ==
  /\ query.pc = "idle"
  /\ query.n < MaxQueries
  /\ query' = [ query EXCEPT !.pc = "fetch" ]
  /\ UNCHANGED << server, registry, excluded, initialize, started, init,
                  processedTweets, pollInterval, timers, cycles, cache, bus,
                   lastCall, stopCalled, messageBus >>

\* lines 253-275: fetch resolves; response.text() is called on either branch
QueryRespond(ok, body) ==
  /\ query.pc = "fetch"
  /\ query' = [ query EXCEPT !.pc = IF ok THEN "text" ELSE "errorText",
                             !.body = body ]
  /\ UNCHANGED << server, registry, excluded, initialize, started, init,
                  processedTweets, pollInterval, timers, cycles, cache, bus,
                   lastCall, stopCalled, messageBus >>

\* lines 253, 264 and 275: fetch or response.text() rejects
QueryNetworkFail ==
  /\ query.pc \in { "fetch", "text", "errorText" }
  /\ QuerySettle(QueryCatch, "")
  /\ UNCHANGED << server, registry, excluded, initialize, started, init,
                  processedTweets, pollInterval, timers, cycles, cache, bus,
                   stopCalled, messageBus >>

\* lines 263-268: the response was not ok; its text is wrapped in an Error
QueryNotOk ==
  /\ query.pc = "errorText"
  /\ QuerySettle(QueryCatch, "")
  /\ UNCHANGED << server, registry, excluded, initialize, started, init,
                  processedTweets, pollInterval, timers, cycles, cache, bus,
                   stopCalled, messageBus >>

\* lines 275-291 and 224-229: the text arrives and execute returns it
QueryText ==
  /\ query.pc = "text"
  /\ QuerySettle("resolved", FetchDataResult(query.body))
  /\ UNCHANGED << server, registry, excluded, initialize, started, init,
                  processedTweets, pollInterval, timers, cycles, cache, bus,
                   stopCalled, messageBus >>

\* ---------------------------------------------------------- specification
Lifecycle ==
  \/ ServerLoad \/ ServerLoadFail \/ ServerRegister \/ ServerRegistered
  \/ ServerStart \/ AgentStartPlugin
  \/ ApiInitialize \/ ApiStart
  \/ InitGetLast \/ InitGetProcessed \/ InitSetState \/ InitFail

ApiFailure == ApiInitializeFail \/ ApiStartFail

Cycle(c) ==
  \/ GetCursor(c) \/ GetCursorFail(c)
  \/ \E m \in Candidates : Examine(c, m)
  \/ FetchFail(c) \/ PublishDone(c) \/ PublishFail(c) \/ LoopExit(c)
  \/ SetLast(c) \/ SetProcessed(c) \/ UpdateState(c) \/ CacheWriteFail(c)

Polling ==
  \/ \E c \in CycleIds : Cycle(c)
  \/ \E h \in timers : TimerTick(h)
  \/ StopListening
  \/ ExecuteFetchMentions

Query ==
  \/ ExecuteQuery
  \/ \E ok \in BOOLEAN, body \in Bodies : QueryRespond(ok, body)
  \/ QueryNetworkFail \/ QueryNotOk \/ QueryText

\* the server with the polling plugin; the API plugin does not fail
Next == Lifecycle \/ Polling

Spec == Init /\ [][Next]_vars

\* the plugin lifecycle with a failing API plugin; one poll cycle at a time
LifecycleNext ==
  \/ Lifecycle \/ ApiFailure
  \/ \E c \in CycleIds : Cycle(c)
  \/ \E h \in timers : TimerTick(h)
  \/ StopListening

LifecycleSpec == Init /\ [][LifecycleNext]_vars

\* the action dispatch path: QUERY and FETCH_MENTIONS
DispatchNext ==
  \/ Lifecycle
  \/ \E c \in CycleIds : Cycle(c)
  \/ ExecuteFetchMentions
  \/ Query

DispatchSpec == Init /\ [][DispatchNext]_vars

\* the poller publishing to handlers that subscribe and unsubscribe
BusNext ==
  \/ Lifecycle
  \/ \E c \in CycleIds : Cycle(c)
  \/ \E h \in Handlers : Subscribe(h) \/ Unsubscribe(h)

BusSpec == Init /\ [][BusNext]_vars

\* the poller sharing the cache key twitter_state with other clients
CacheNext ==
  \/ Lifecycle
  \/ \E c \in CycleIds : Cycle(c)
  \/ \E h \in timers : TimerTick(h)
  \/ \E partial \in OtherPartials : OtherUpdate(partial)

CacheSpec == Init /\ [][CacheNext]_vars

\* the poller over a cache that outlives the process
RestartNext ==
  \/ Lifecycle
  \/ \E c \in CycleIds : Cycle(c)
  \/ \E h \in timers : TimerTick(h)
  \/ Restart

RestartSpec == Init /\ [][RestartNext]_vars

\* the poller with callers of startListening and stopListening
ListenNext ==
  \/ Lifecycle
  \/ \E c \in CycleIds : Cycle(c)
  \/ \E h \in timers : TimerTick(h)
  \/ StartListening
  \/ StopListening

ListenSpec == Init /\ [][ListenNext]_vars

\* the plugin lifecycle on an event loop that runs every pending continuation
LifecycleFairSpec == LifecycleSpec /\ WF_vars(LifecycleNext)

\* ------------------------------------------------------------------ claims
\* the number a decimal string denotes
RECURSIVE Value(_)
Value(id) == IF id = <<>> THEN 0
             ELSE 10 * Value(SubSeq(id, 1, Len(id) - 1)) + id[Len(id)]

\* the numerically greatest id of a non-empty sequence of ids
Greatest(ids) == CHOOSE m \in Range(ids) :
                   \A k \in Range(ids) : Value(m) >= Value(k)

Quiescent == \A c \in CycleIds : ~InFlight(c)

ThrowsInTry(c) == GetCursorFail(c) \/ FetchFail(c) \/ PublishFail(c)

\* C1: a candidate whose id is in processedTweets when it is examined is
\* skipped: publish is not called for it and nothing is put on the bus.
DedupIdempotence ==
  [][ \A c \in CycleIds :
        /\ cycles[c].pc = "iter" /\ cycles'[c].pc = "publish"
             => cycles'[c].mention \notin Range(processedTweets)
        /\ cycles[c].pc = "iter" /\ cycles'[c].yielded > cycles[c].yielded
           /\ cycles'[c].pc = "iter"
             => bus' = bus ]_vars

\* C1 witness: a cycle has skipped a candidate that carries an id it has not
\* published itself, because another cycle had recorded it as processed.
DedupIdempotenceWitness ==
  \E c \in CycleIds :
    /\ cycles[c].pc = "iter"
    /\ Len(cycles[c].firstOccurrences) > cycles[c].count
    /\ Range(cycles[c].firstOccurrences) \subseteq Range(processedTweets)

\* C2: overlapping cycles never put an id on the bus that is on the bus
\* already and that the dedup set still holds.
OverlapSafe ==
  [][ \A c \in CycleIds :
        cycles[c].pc = "publish" /\ bus' = Append(bus, cycles[c].mention)
          => ~ ( /\ cycles[c].mention \in Range(bus)
                 /\ cycles[c].mention \in Range(processedTweets) ) ]_vars

\* C3: every write to the cache key lastMentionId stores a value that is
\* not earlier, in the plugin's string order, than the value it replaces.
CursorMonotone ==
  [][ cache'.lastMentionId # cache.lastMentionId
        => \/ cache.lastMentionId = NoId
           \/ StrGT(cache'.lastMentionId, cache.lastMentionId) ]_vars

\* C4: when no poll cycle is in progress the dedup set holds at most the
\* ceiling of identifiers.
BoundedMemory == Quiescent => Len(processedTweets) <= MaxProcessed

\* C5: when the cursor read, the fetch or a publish raises, fetchMentions
\* resolves to 0, the cycle has written nothing to the cache and writes
\* nothing, no interval is cancelled, and a startListening that awaits the
\* cycle still creates its interval and resolves.
FailurePolicy ==
  [][ \A c \in CycleIds :
        ThrowsInTry(c)
          => /\ lastCall'.settled = "resolved"
             /\ lastCall'.value = 0
             /\ ~cycles[c].wrote
             /\ cache' = cache
             /\ timers \subseteq timers'
             /\ IF cycles[c].origin = "start"
                THEN /\ pollInterval' \in timers' \ timers
                     /\ started'[TW] = "done"
                ELSE /\ timers' = timers
                     /\ pollInterval' = pollInterval
                     /\ started' = started ]_vars

\* C5 witness: the only cycle so far, the initial fetch of startListening,
\* published and then failed: it returned 0, the cache holds what initialize
\* left there, and the interval was created all the same.
FailurePolicyWitness ==
  /\ bus # <<>>
  /\ Quiescent
  /\ \A c \in CycleIds : c > 1 => cycles[c].pc = "idle"
  /\ lastCall = [ settled |-> "resolved", value |-> 0, data |-> "" ]
  /\ cache.lastMentionId = NoId
  /\ ~cache.processedTweets.present
  /\ cache.twitter_state.processedTweets = <<>>
  /\ timers # {}

\* C6: the first and only cycle, run to its end without an error, has put on
\* the bus exactly the first occurrences of the candidates that carry an id,
\* in the order received, returns their number, and has persisted the
\* numerically greatest of them as the cursor.
SingleCycleResult ==
  [][ \A c \in CycleIds :
        /\ \A d \in CycleIds \ {c} : cycles[d].pc = "idle"
        /\ UpdateState(c) \/ LoopExit(c)
        /\ cycles'[c].pc = "done"
        => LET seen == cycles[c].firstOccurrences IN
             /\ bus' = seen
             /\ lastCall'.value = Len(seen)
             /\ seen # <<>> => cache'.lastMentionId = Greatest(seen) ]_vars

\* C7: once stopListening has been called after start() was invoked, no
\* interval callback enters fetchMentions any more.
StopCancelsTimer ==
  [][ stopCalled => \A c \in CycleIds :
                      cycles[c].pc = "idle" /\ cycles'[c].pc # "idle"
                        => cycles'[c].origin # "timer" ]_vars

\* C8: start() has been called on a plugin only if its initialize has
\* completed; while the poller's initialize has not completed it has no poll
\* cycle, no interval and no pollInterval.
LifecycleOrdering ==
  /\ \A p \in PluginNames : started[p] # "none" => initialize[p] = "done"
  /\ initialize[TW] # "done"
       => /\ \A c \in CycleIds : cycles[c].pc = "idle"
          /\ timers = {}
          /\ pollInterval = 0

\* C8 witness: both plugins were initialized and then started, and the
\* poller's interval is running.
LifecycleOrderingWitness ==
  /\ \A p \in PluginNames : started[p] = "done" /\ initialize[p] = "done"
  /\ timers # {}

\* C9: stopping what stopListening has left behind changes nothing, stopping
\* a plugin that has no interval changes nothing at all, and no call of
\* stopListening touches the dedup set or the cache.
StopIdempotent ==
  /\ [] LET once == StopResult(pollInterval, timers) IN
          /\ StopResult(once.pollInterval, once.timers) = once
          /\ pollInterval = 0
               => once = [ pollInterval |-> pollInterval, timers |-> timers ]
  /\ [][ StopListening
           => /\ processedTweets' = processedTweets
              /\ cache' = cache
              /\ cycles' = cycles
              /\ pollInterval' = 0
              /\ pollInterval = 0 => timers' = timers ]_vars

\* C9 witness: the interval was created and a later stopListening has
\* cancelled it while a poll cycle had left ids in the dedup set.
StopIdempotentWitness ==
  /\ started[TW] = "done"
  /\ stopCalled
  /\ pollInterval = 0
  /\ timers = {}
  /\ processedTweets # <<>>

\* C10: an execute whose downstream call failed settles as an error, for
\* FETCH_MENTIONS as for QUERY.
ActionFailuresSurface ==
  [][ /\ \A c \in CycleIds :
           cycles[c].origin = "action" /\ ThrowsInTry(c)
             => lastCall'.settled = "rejected"
      /\ QueryNetworkFail \/ QueryNotOk
           => lastCall'.settled = "rejected" ]_vars

\* C11: start() is called on the plugins in registration order, and when the
\* API plugin's start() has thrown, the poller registered after it still has
\* its start() called and ends up started.
StartIsolation ==
  /\ [] ( started[TW] # "none"
            => API \in excluded \/ started[API] \in { "done", "failed" } )
  /\ ( started[API] = "failed" /\ TW \notin excluded )
       ~> started[TW] = "done"

\* C11 witness: the API plugin's start() threw and the poller is started.
StartIsolationWitness ==
  /\ started[API] = "failed"
  /\ started[TW] = "done"
  /\ timers # {}

\* C12: a plugin whose initialize failed never has its start() called (the
\* poller then has no poll cycle and no interval), the process goes on, and
\* start() is still called on the other plugins.
InitFailureIsolated ==
  /\ [] ( \A p \in PluginNames :
            initialize[p] = "failed"
              => /\ started[p] = "none"
                 /\ server.pc # "exited" )
  /\ [] ( initialize[TW] = "failed"
            => /\ \A c \in CycleIds : cycles[c].pc = "idle"
               /\ timers = {} /\ pollInterval = 0 )
  /\ initialize[TW] = "failed" ~> ( API \in excluded \/ started[API] # "none" )
  /\ initialize[API] = "failed" ~> ( TW \in excluded \/ started[TW] # "none" )

\* C12 witness: a cache call of initializeCache raised, agent.start() has
\* gone through the registry, and the API plugin is started while the poller
\* is not.
InitFailureIsolatedWitness ==
  /\ initialize[TW] = "failed"
  /\ server.pc = "starting" /\ server.idx = Len(Plugins)
  /\ started[API] = "done"
  /\ started[TW] = "none"

\* C13: a publish hands the message to every handler subscribed at that
\* moment, once each and in subscription order, whichever handlers throw;
\* nothing else is delivered, and a throwing handler leaves the publisher
\* going on: publish resolves and the id is marked as processed.
BusFanOut ==
  [][ /\ \A c \in CycleIds :
           PublishDone(c)
             => LET hs == messageBus.handlers
                    m == cycles[c].mention
                IN /\ messageBus'.deliveries =
                        messageBus.deliveries
                          \o [ i \in 1..Len(hs) |-> << hs[i], m >> ]
                   /\ cycles'[c].pc = "iter"
                   /\ m \in Range(processedTweets')
      /\ bus' = bus => messageBus'.deliveries = messageBus.deliveries ]_vars

\* C13 witness: two handlers were subscribed when a message was published,
\* the first of them threw, and both were handed the message, in order.
BusFanOutWitness ==
  \E m \in Ids :
    LET hs == messageBus.handlers
        n == Len(messageBus.deliveries)
    IN /\ Len(hs) >= 2
       /\ << hs[1], m >> \in messageBus.reported
       /\ n >= Len(hs)
       /\ \A i \in 1..Len(hs) :
            messageBus.deliveries[n - Len(hs) + i] = << hs[i], m >>

\* the fields of a twitter_state entry that carry its value
ValueFields == DOMAIN AbsentState \ { "present", "tag" }

\* cache.update("twitter_state", partial) has just taken effect
Merged(partial) ==
  LET old == cache.twitter_state
      new == cache'.twitter_state
  IN /\ new.present
     /\ \A f \in DOMAIN partial : new[f] = partial[f]
     /\ \A f \in ValueFields \ DOMAIN partial : new[f] = old[f]
     /\ ~old.present => cache' = CacheSet(cache, "twitter_state",
                                          Stored(partial, old.tag))

\* C14: update merges the fields of the partial into the stored value and
\* keeps the other fields (a: 1 stays when b: 2 is merged in), and on an
\* absent key it leaves what set(key, partial) leaves.
CacheMerge ==
  [][ /\ \A partial \in OtherPartials :
           OtherUpdate(partial) => Merged(partial)
      /\ \A c \in CycleIds :
           UpdateState(c)
             => Merged([ lastMentionId |-> cycles[c].newLastMentionId,
                         lastPollTime |-> cycles[c].lastPollTime,
                         processedTweets |-> cycles[c].processedArray ])
    ]_vars

\* C14 witness: a: 1 and then b: 2 were merged into twitter_state after
\* initialize had stored the poller's state there, and all of it is there.
CacheMergeWitness ==
  /\ cache.twitter_state.a = 1
  /\ cache.twitter_state.b = 2
  /\ cache.twitter_state.tag = "twitter_state"
  /\ cache.twitter_state.processedTweets # <<>>

\* the messages cycle c has put on the bus
Published(c) ==
  IF cycles[c].pc = "publish" THEN cycles[c].count - 1 ELSE cycles[c].count

\* C15: a poll cycle writes to the cache only after it has published an
\* item; a cycle that comes to the end of its candidates with an item
\* published goes on to persist; and its write to twitter_state stores the
\* cursor, the poll time and the snapshot and keeps every other field and
\* the tag.
PersistenceFrame ==
  [][ \A c \in CycleIds :
        /\ Cycle(c) /\ cache' # cache => Published(c) > 0
        /\ LoopExit(c) /\ Published(c) > 0 => cycles'[c].pc = "setLast"
        /\ UpdateState(c)
             => LET old == cache.twitter_state
                    new == cache'.twitter_state
                IN /\ new.lastMentionId = cycles[c].newLastMentionId
                   /\ new.lastPollTime = cycles[c].lastPollTime
                   /\ new.processedTweets = cycles[c].processedArray
                   /\ new.a = old.a /\ new.b = old.b /\ new.tag = old.tag
                   /\ cache'.lastMentionId = cache.lastMentionId
                   /\ cache'.processedTweets = cache.processedTweets ]_vars

\* C15 witness: the first cycle published an item and persisted, a second
\* cycle found nothing new and returned 0, and twitter_state holds the first
\* cycle's poll time next to the fields of the other clients.
PersistenceFrameWitness ==
  /\ cycles[1].pc = "done" /\ cycles[2].pc = "done"
  /\ Len(bus) = 1
  /\ lastCall.settled = "resolved" /\ lastCall.value = 0
  /\ cache.twitter_state.processedTweets = bus
  /\ cache.twitter_state.lastPollTime = 1
  /\ cache.twitter_state.a = 1 /\ cache.twitter_state.b = 2

\* C16: when a cycle has just written the cursor, no id on the bus comes
\* after the cursor in the order the plugin compares ids with.
CursorHighestSeen ==
  [][ \A c \in CycleIds :
        SetLast(c)
          => \A m \in Range(bus) : ~StrGT(m, cache'.lastMentionId) ]_vars

\* C17: when a candidate is counted, the tracked maximum becomes the
\* numerically greater of the maximum tracked before and the candidate's id.
TrackedMaxNumeric ==
  [][ \A c \in CycleIds :
        cycles[c].pc = "iter" /\ cycles'[c].pc = "publish"
          => LET m == cycles'[c].mention
                 cur == cycles[c].newLastMentionId
             IN cycles'[c].newLastMentionId =
                  IF cur = NoId \/ Value(m) > Value(cur) THEN m ELSE cur ]_vars

\* the process is not the first one over this cache
Restarted == server.boot > 0

\* the snapshot the running instance took up in initializeCache
Restored == init.processedTweets

\* C18, as claimed: a restarted instance takes up exactly the stored
\* snapshot, initialize leaves the keys lastMentionId and processedTweets as
\* they are, and the instance never publishes an id of that snapshot.
RestartRoundTrip ==
  [][ /\ InitGetProcessed /\ cache.processedTweets.present
           => processedTweets' = cache.processedTweets.value
      /\ InitGetLast \/ InitGetProcessed \/ InitSetState
           => /\ cache'.lastMentionId = cache.lastMentionId
              /\ cache'.processedTweets = cache.processedTweets
      /\ \A c \in CycleIds :
           Restarted /\ PublishDone(c)
             => cycles[c].mention \notin Range(Restored) ]_vars

\* C18, amended: as above, but an id of the snapshot is kept from being
\* published only while it is in the dedup set.
RestartRoundTripInSet ==
  [][ /\ InitGetProcessed /\ cache.processedTweets.present
           => processedTweets' = cache.processedTweets.value
      /\ InitGetLast \/ InitGetProcessed \/ InitSetState
           => /\ cache'.lastMentionId = cache.lastMentionId
              /\ cache'.processedTweets = cache.processedTweets
      /\ \A c \in CycleIds, m \in Range(Restored) :
           /\ Restarted /\ Examine(c, m) /\ m \in Range(processedTweets)
                => cycles'[c].pc = "iter" /\ cycles'[c].count = cycles[c].count
           /\ Restarted /\ PublishDone(c) /\ cycles[c].mention = m
                => m \notin Range(processedTweets) ]_vars

\* C18 witness: a restarted instance holds the snapshot an earlier process
\* stored, and its cycle has skipped a candidate of that snapshot.
RestartRoundTripWitness ==
  /\ Restarted
  /\ initialize[TW] = "done"
  /\ Restored # <<>>
  /\ processedTweets = cache.processedTweets.value
  /\ \E c \in CycleIds :
       /\ cycles[c].pc = "iter"
       /\ cycles[c].count = 0
       /\ cycles[c].firstOccurrences # <<>>
       /\ Range(cycles[c].firstOccurrences) \subseteq Range(Restored)

\* a cache write of updateCache is awaited
Writing(c) == cycles[c].pc \in { "setLast", "setProcessed", "updateState" }

\* C19: while no poll cycle is writing to the cache, twitter_state holds the
\* cursor stored under lastMentionId and the snapshot stored under
\* processedTweets.
CrossKeyConsistent ==
  (\A c \in CycleIds : ~Writing(c))
    => /\ cache.twitter_state.lastMentionId = cache.lastMentionId
       /\ cache.twitter_state.processedTweets = cache.processedTweets.value

\* C20: at most one interval is active, it is the one pollInterval refers
\* to, and a stopListening leaves no interval active.
SingleTimer ==
  /\ [] ( Cardinality(timers) <= 1 /\ timers \subseteq { pollInterval } )
  /\ [][ StopListening => timers' = {} ]_vars

====
